---- MODULE Spec2Model ----
(***************************************************************************)
(* zustand-context: the scoped instance registry (Provider), the           *)
(* resolution hooks (useContextStore, useContextStore.from) and the        *)
(* strict/fallback error policy of src/create.ts, together with the        *)
(* merge helpers of src/utils.ts and the state container of                *)
(* src/vanilla.ts.                                                         *)
(*                                                                         *)
(* JavaScript values are tagged records [t, n, o]: t is the kind, n the    *)
(* payload of a number or the identity of a function, o the own            *)
(* properties of a plain object (a function from property names to         *)
(* values).  console output is not modelled: it changes no program state.  *)
(***************************************************************************)
EXTENDS Integers, Sequences, FiniteSets, TLC

\* ---------------------------------------------------------------- bounds
MaxNodes == 2
MaxMutations == 1

\* ------------------------------------------------------ JavaScript values
Undefined == [t |-> "undefined", n |-> 0, o |-> <<>>]
Null == [t |-> "null", n |-> 0, o |-> <<>>]
Num(n) == [t |-> "number", n |-> n, o |-> <<>>]
Fn(n) == [t |-> "function", n |-> n, o |-> <<>>]
Obj(f) == [t |-> "object", n |-> 0, o |-> f]
EmptyObject == Obj(<<>>)

\* JavaScript truthiness of a value
Truthy(v) ==
  CASE v.t = "undefined" -> FALSE
    [] v.t = "null" -> FALSE
    [] v.t = "number" -> v.n # 0
    [] OTHER -> TRUE

\* Object.keys(v), and the keys that { ...v } copies: a number, a function,
\* null or undefined contributes none
ObjectKeys(v) == IF v.t = "object" THEN DOMAIN v.o ELSE {}

\* { ...a, ...b }
Spread2(a, b) ==
  Obj([k \in ObjectKeys(a) \cup ObjectKeys(b) |->
         IF k \in ObjectKeys(b) THEN b.o[k] ELSE a.o[k]])

\* obj[k] (undefined when the property is absent)
Get(v, k) == IF k \in ObjectKeys(v) THEN v.o[k] ELSE Undefined

\* ------------------------------------------------------------ utils.ts
isObject(item) == item.t = "object"

RECURSIVE deepMerge(_, _)
deepMerge(target, source) ==
  IF ~isObject(source) THEN target
  ELSE IF ~isObject(target) THEN Spread2(EmptyObject, target)
  ELSE Obj([key \in ObjectKeys(target) \cup ObjectKeys(source) |->
         IF key \notin ObjectKeys(source) THEN target.o[key]
         ELSE IF isObject(source.o[key])
              THEN IF key \notin ObjectKeys(target)
                   THEN source.o[key]
                   ELSE deepMerge(target.o[key], source.o[key])
              ELSE source.o[key]])

\* a whitelist or blacklist option: given or undefined, and its items
NoList == [given |-> FALSE, items |-> {}]
List(s) == [given |-> TRUE, items |-> s]

\* a filter in which a whitelisted key is kept whatever the blacklist says
filterStateByLists_whitelistWins(state, whitelist, blacklist) ==
  IF ~whitelist.given /\ ~blacklist.given THEN state
  ELSE LET copy == Spread2(EmptyObject, state)
       IN IF whitelist.given /\ whitelist.items # {}
          THEN Obj([k \in ObjectKeys(copy) \cap whitelist.items |-> copy.o[k]])
          ELSE IF blacklist.given /\ blacklist.items # {}
          THEN Obj([k \in ObjectKeys(copy) \ blacklist.items |-> copy.o[k]])
          ELSE copy

filterStateByLists(state, whitelist, blacklist) ==
  IF ~whitelist.given /\ ~blacklist.given THEN state
  ELSE LET copy == Spread2(EmptyObject, state)
           afterWhite ==
             IF whitelist.given /\ whitelist.items # {}
             THEN Obj([k \in ObjectKeys(copy) \cap whitelist.items |-> copy.o[k]])
             ELSE copy
       IN IF blacklist.given /\ blacklist.items # {}
          THEN Obj([k \in ObjectKeys(afterWhite) \ blacklist.items |-> afterWhite.o[k]])
          ELSE afterWhite

\* ------------------------------------------------------------ vanilla.ts
\* setState(partial, replace) for a partial that is not a function;
\* replace is "true", "false" or "undefined"
setState(state, partial, replace) ==
  LET nextState == partial
      whole == IF replace = "undefined"
               THEN nextState.t # "object"
               ELSE replace = "true"
  IN IF nextState = state THEN state
     ELSE IF whole THEN nextState
     ELSE Spread2(Spread2(EmptyObject, state), nextState)

\* ------------------------------------------------------ model universe
\* The two store definitions of the program (two calls of create)
Defs == {1, 2}
Slots == 1..MaxNodes

\* stands for an instanceId argument or prop that is not passed
UndefinedId == "<undefined>"
\* instance ids that Providers and consumers use
InstanceIds == {"", "a"}
IdArgs == InstanceIds \cup {UndefinedId}
\* keys of a Provider's stores map: the ids above and the default Symbol
MapKeys == InstanceIds \cup {"Symbol(default)"}
\* JavaScript truthiness of an instanceId argument
TruthyId(id) == id # UndefinedId /\ id # ""

Selectors == {"none", "count"}

\* the state initializer passed to create():
\*   (set) => ({ count: 0, user: { name: 1, age: 1 },
\*               increment: () => set((s) => ({ count: s.count + 1 })) })
InitializerState ==
  Obj([count |-> Num(0),
       user |-> Obj([name |-> Num(1), age |-> Num(1)]),
       increment |-> Fn(1)])

\* the defaultState option when it is configured; its mutator has no access
\* to any store (README: addFish: () => console.warn(...))
ConfiguredDefaultState == Obj([count |-> Num(3), increment |-> Fn(2)])

NoMergeOptions ==
  [given |-> FALSE, shallow |-> "undefined", whitelist |-> NoList,
   blacklist |-> NoList, customMerge |-> "none"]

\* initialState props and mergeStrategy props that Providers are given
PartialState == Obj([count |-> Num(10), user |-> Obj([name |-> Num(2)])])
InitialStates == {Undefined, EmptyObject, PartialState}
MergeStrategies == {"undefined", "shallow", "deep", "replace"}

VARIABLES
  options,      \* the arguments of create(): the options object, and
                \* whether the initializer can throw
  defaultStore, \* per definition: the store made from defaultState, or null
  tree,         \* the mounted Provider elements and their place in the tree
  contextRef,   \* per Provider element: contextRef.current
  storeState,   \* state of the store created by the Provider in each slot
  constructed,  \* number of stores created by Providers so far
  mutations,    \* number of mutator calls so far
  last          \* the most recent hook call, Provider evaluation or mutator
                \* call: its arguments and outcome

vars == <<options, defaultStore, tree, contextRef, storeState, constructed,
          mutations, last>>

NullRef == [stores |-> [id \in MapKeys |-> 0], defaultStore |-> 0]
NoElement == [mounted |-> FALSE, def |-> 0, parent |-> 0]
NullStore == [exists |-> FALSE, state |-> Undefined]
NoCall == [hook |-> "none", at |-> 0, def |-> 0, instanceId |-> UndefinedId,
           selector |-> "none", outcome |-> "none", store |-> 0,
           value |-> Undefined, error |-> "none", events |-> <<>>]

\* ------------------------------------------------------------ create()
\* mergedOptions = { ...DEFAULT_OPTIONS, ...options }: an own property of
\* options, even one whose value is undefined, overrides the default
mergedStrict(opts) == IF opts.strict = "omitted" THEN "true" ELSE opts.strict

strict == mergedStrict(options) = "true"

defaultInstanceId ==
  IF options.defaultInstanceId = UndefinedId THEN "Symbol(default)"
  ELSE options.defaultInstanceId

\* createDefaultStore with the strict test left out
createDefaultStore_anyMode(opts) ==
  IF Truthy(opts.defaultState)
  THEN [exists |-> TRUE, state |-> opts.defaultState]
  ELSE NullStore

\* const defaultStore = !strict && defaultState ? createStoreImpl(...) : null
createDefaultStore(opts) ==
  IF mergedStrict(opts) # "true" /\ Truthy(opts.defaultState)
  THEN [exists |-> TRUE, state |-> opts.defaultState]
  ELSE NullStore

\* handleError that throws whatever the strict option says
handleError_alwaysThrows(error) ==
  IF options.onError = "throws"
  THEN [events |-> <<"onError">>, thrown |-> "HookError"]
  ELSE [events |-> IF options.onError = "returns"
                   THEN <<"onError", "throw">> ELSE <<"throw">>,
        thrown |-> error]

\* handleError(error): the events it produces and what it throws
handleError(error) ==
  IF options.onError = "throws"
  THEN [events |-> <<"onError">>, thrown |-> "HookError"]
  ELSE LET ev == IF options.onError = "returns" THEN <<"onError">> ELSE <<>>
       IN IF strict
          THEN [events |-> Append(ev, "throw"), thrown |-> error]
          ELSE [events |-> ev, thrown |-> "none"]

\* the customMerge option when it is configured: the old state wins and the
\* merge leaves its mark,
\*   (oldState, newState) => ({ ...newState, ...oldState, custom: 1 })
customMerge(oldState, newState) ==
  Spread2(Spread2(newState, oldState), Obj([custom |-> Num(1)]))

\* a mergeState whose built-in merge is always the deep one
mergeState_alwaysDeep(oldState, newState) ==
  IF ~Truthy(newState) \/ ObjectKeys(newState) = {} THEN oldState
  ELSE IF options.mergeOptions.customMerge # "none"
       THEN customMerge(oldState, newState)
  ELSE deepMerge(oldState,
                 filterStateByLists(newState, options.mergeOptions.whitelist,
                                    options.mergeOptions.blacklist))

mergeState(oldState, newState) ==
  IF ~Truthy(newState) \/ ObjectKeys(newState) = {} THEN oldState
  ELSE IF options.mergeOptions.customMerge # "none"
       THEN customMerge(oldState, newState)
  ELSE LET filteredState ==
             filterStateByLists(newState, options.mergeOptions.whitelist,
                                options.mergeOptions.blacklist)
       IN IF options.mergeOptions.shallow = "false"
          THEN deepMerge(oldState, filteredState)
          ELSE Spread2(oldState, filteredState)

\* ------------------------------------------------------- React context
\* a lookup that takes the nearest Provider of any definition
NearestProvider_anyDef(p, d) == p

\* useContext(StoreContext) of definition d for a component rendered under
\* Provider element p (0: directly under the root)
RECURSIVE NearestProvider(_, _)
NearestProvider(p, d) ==
  IF p = 0 THEN 0
  ELSE IF tree[p].def = d THEN p
  ELSE NearestProvider(tree[p].parent, d)

useContext(p, d) ==
  IF NearestProvider(p, d) = 0 THEN NullRef
  ELSE contextRef[NearestProvider(p, d)]

IsNull(ctx) == ctx.defaultStore = 0

\* a place where a component can be rendered
Positions == {0} \cup {p \in Slots : tree[p].mounted}

\* ------------------------------------------------------------ hooks
\* store handles: -1 is the definition's defaultStore, s > 0 a Provider's
getState(s, d) == IF s = -1 THEN defaultStore[d].state ELSE storeState[s]

\* useStore(store, selector) / useStore(store)
useStore(s, d, selector) ==
  IF selector = "none" THEN getState(s, d) ELSE Get(getState(s, d), selector)

Returned(s, v, ev) ==
  [outcome |-> "returned", store |-> s, value |-> v, error |-> "none",
   events |-> Append(ev, "return")]
Thrown(h) ==
  [outcome |-> "threw", store |-> 0, value |-> Undefined, error |-> h.thrown,
   events |-> h.events]

\* the no-Provider branch answering from the initializer's state instead of
\* the defaultStore
noProvider_initialState(d, selector) ==
  IF defaultStore[d].exists
  THEN Returned(0, IF selector = "none" THEN InitializerState
                   ELSE Get(InitializerState, selector), <<>>)
  ELSE LET h == handleError("ProviderNotFound")
       IN IF h.thrown # "none" THEN Thrown(h)
          ELSE Returned(0, EmptyObject, h.events)

\* the no-Provider branch applying the selector to the empty object
noProvider_appliesSelector(d, selector) ==
  IF defaultStore[d].exists
  THEN Returned(-1, useStore(-1, d, selector), <<>>)
  ELSE LET h == handleError("ProviderNotFound")
       IN IF h.thrown # "none" THEN Thrown(h)
          ELSE Returned(0, IF selector = "none" THEN EmptyObject
                           ELSE Get(EmptyObject, selector), h.events)

\* the branch of both hooks taken when useContext returns null
noProvider(d, selector) ==
  IF defaultStore[d].exists
  THEN Returned(-1, useStore(-1, d, selector), <<>>)
  ELSE LET h == handleError("ProviderNotFound")
       IN IF h.thrown # "none" THEN Thrown(h)
          ELSE Returned(0, EmptyObject, h.events)

\* the base hook looking the default instanceId up in the stores map
useContextStore_byDefaultId(p, d, selector) ==
  LET contextValue == useContext(p, d)
      store == IF contextValue.stores[defaultInstanceId] # 0
               THEN contextValue.stores[defaultInstanceId]
               ELSE contextValue.defaultStore
  IN IF IsNull(contextValue) THEN noProvider(d, selector)
     ELSE Returned(store, useStore(store, d, selector), <<>>)

useContextStore(p, d, selector) ==
  LET contextValue == useContext(p, d)
  IN IF IsNull(contextValue) THEN noProvider(d, selector)
     ELSE Returned(contextValue.defaultStore,
                   useStore(contextValue.defaultStore, d, selector), <<>>)

\* useContextStore.useProxySelector(fallback):
\*   try { return useContextStore(); } catch (e) { return fallback; }
useProxySelector(p, d, fallback) ==
  LET r == useContextStore(p, d, "none")
  IN IF r.outcome = "threw"
     THEN [outcome |-> "returned", store |-> 0, value |-> fallback,
           error |-> "none", events |-> Append(r.events, "catch")]
     ELSE r

\* stores.get(id): 0 stands for undefined
MapGet(stores, id) == IF id \in DOMAIN stores THEN stores[id] ELSE 0

\* from(id) answering a missing id from the initializer's state
useNamedContextStore_initialState(p, d, instanceId, selector) ==
  LET contextValue == useContext(p, d)
      found == MapGet(contextValue.stores, instanceId)
  IN IF IsNull(contextValue) THEN noProvider(d, selector)
     ELSE IF ~TruthyId(instanceId)
          THEN Returned(contextValue.defaultStore,
                        useStore(contextValue.defaultStore, d, selector), <<>>)
     ELSE IF found # 0 THEN Returned(found, useStore(found, d, selector), <<>>)
     ELSE Returned(0, IF selector = "none" THEN InitializerState
                      ELSE Get(InitializerState, selector), <<>>)

useNamedContextStore(p, d, instanceId, selector) ==
  LET contextValue == useContext(p, d)
      targetInstanceId ==
        IF instanceId = UndefinedId THEN defaultInstanceId ELSE instanceId
      found == MapGet(contextValue.stores, targetInstanceId)
      store == IF TruthyId(instanceId)
               THEN IF found # 0 THEN found ELSE contextValue.defaultStore
               ELSE contextValue.defaultStore
  IN IF IsNull(contextValue) THEN noProvider(d, selector)
     ELSE Returned(store, useStore(store, d, selector), <<>>)

\* ------------------------------------------------------------ Provider
\* calls in which the Provider patches the store with the initialState
setStateCalls_patches(initialState, mergeStrategy) ==
  IF ~Truthy(initialState) THEN <<>>
  ELSE <<[partial |-> initialState,
          replace |-> IF mergeStrategy = "replace" THEN "true"
                      ELSE "undefined"]>>

\* the calls currentStore.setState(partial, replace) that the initialState
\* branch makes on the store it has just created, in order
setStateCalls(initialState, mergeStrategy) ==
  LET currentState == InitializerState
  IN IF ~Truthy(initialState) THEN <<>>
     ELSE IF mergeStrategy = "replace"
          THEN <<[partial |-> initialState, replace |-> "true"]>>
     ELSE IF mergeStrategy = "deep"
          THEN <<[partial |-> deepMerge(currentState, initialState),
                  replace |-> "true"]>>
     ELSE <<[partial |-> mergeState(currentState, initialState),
             replace |-> "true"]>>

\* a store's state after a sequence of setState calls
RECURSIVE applyCalls(_, _)
applyCalls(state, calls) ==
  IF calls = <<>> THEN state
  ELSE applyCalls(setState(state, Head(calls).partial, Head(calls).replace),
                  Tail(calls))

\* a created state in which 'replace' patches the initializer's state
createdState_replaceMerges(initialState, mergeStrategy) ==
  LET currentState == InitializerState
  IN IF ~Truthy(initialState) THEN currentState
     ELSE IF mergeStrategy = "replace"
          THEN setState(currentState, initialState, "undefined")
     ELSE IF mergeStrategy = "deep"
          THEN setState(currentState, deepMerge(currentState, initialState),
                        "true")
     ELSE setState(currentState, mergeState(currentState, initialState),
                   "true")

\* the state of the store a Provider creates: createStore(initializer),
\* then the initialState branch
createdState(initialState, mergeStrategy) ==
  applyCalls(InitializerState, setStateCalls(initialState, mergeStrategy))

\* a stores map in which an entry copied from the parent is kept when the
\* Provider's own instanceId is already a key of it
initialStores_parentWins(parentContext, instanceId, currentStore) ==
  [id \in MapKeys |->
     IF ~IsNull(parentContext) /\ parentContext.stores[id] # 0
     THEN parentContext.stores[id]
     ELSE IF id = instanceId THEN currentStore ELSE 0]

\* the stores map a Provider builds: a copy of the parent context's map,
\* then its own entry
initialStores(parentContext, instanceId, currentStore) ==
  [id \in MapKeys |->
     IF id = instanceId THEN currentStore
     ELSE IF IsNull(parentContext) THEN 0
     ELSE parentContext.stores[id]]

\* a Provider whose store, given no initialState, starts in the current
\* state of the parent Provider's store
Provider_inherits(i, p, d, instanceIdProp, initialState, mergeStrategy) ==
  LET instanceId == IF instanceIdProp = UndefinedId THEN defaultInstanceId
                    ELSE instanceIdProp
      parentContext == useContext(p, d)
      currentStore == constructed + 1
  IN /\ \/ /\ ~tree[i].mounted
           /\ i = constructed + 1
           /\ p \in Positions
        \/ /\ tree[i].mounted
           /\ p = tree[i].parent
           /\ d = tree[i].def
     /\ IF IsNull(contextRef[i])
        THEN /\ constructed' = currentStore
             /\ storeState' = [storeState EXCEPT
                  ![currentStore] =
                     IF IsNull(parentContext) \/ Truthy(initialState)
                     THEN createdState(initialState, mergeStrategy)
                     ELSE storeState[parentContext.defaultStore]]
             /\ contextRef' = [contextRef EXCEPT ![i] =
                  [stores |-> initialStores(parentContext, instanceId,
                                            currentStore),
                   defaultStore |-> currentStore]]
             /\ tree' = [tree EXCEPT ![i] =
                  [mounted |-> TRUE, def |-> d, parent |-> p]]
        ELSE UNCHANGED <<constructed, storeState, contextRef, tree>>
     /\ last' = [hook |-> "Provider", at |-> i, def |-> d,
                  instanceId |-> instanceIdProp, initialState |-> initialState,
                  mergeStrategy |-> mergeStrategy,
                  created |-> IsNull(contextRef[i])]
     /\ UNCHANGED <<options, defaultStore, mutations>>

\* a Provider that builds its store and map again on every evaluation
Provider_unmemoized(i, p, d, instanceIdProp, initialState, mergeStrategy) ==
  LET instanceId == IF instanceIdProp = UndefinedId THEN defaultInstanceId
                    ELSE instanceIdProp
      parentContext == useContext(p, d)
      currentStore == constructed + 1
  IN /\ \/ /\ ~tree[i].mounted
           /\ i = constructed + 1
           /\ p \in Positions
        \/ /\ tree[i].mounted
           /\ p = tree[i].parent
           /\ d = tree[i].def
     /\ IF IsNull(contextRef[i])
        THEN /\ constructed' = currentStore
             /\ storeState' = [storeState EXCEPT
                  ![currentStore] = createdState(initialState, mergeStrategy)]
             /\ contextRef' = [contextRef EXCEPT ![i] =
                  [stores |-> initialStores(parentContext, instanceId,
                                            currentStore),
                   defaultStore |-> currentStore]]
             /\ tree' = [tree EXCEPT ![i] =
                  [mounted |-> TRUE, def |-> d, parent |-> p]]
        ELSE /\ storeState' = [storeState EXCEPT
                  ![i] = createdState(initialState, mergeStrategy)]
             /\ contextRef' = [contextRef EXCEPT ![i] =
                  [stores |-> initialStores(parentContext, instanceId, i),
                   defaultStore |-> i]]
             /\ UNCHANGED <<constructed, tree>>
     /\ last' = [hook |-> "Provider", at |-> i, def |-> d,
                  instanceId |-> instanceIdProp, initialState |-> initialState,
                  mergeStrategy |-> mergeStrategy,
                  created |-> IsNull(contextRef[i])]
     /\ UNCHANGED <<options, defaultStore, mutations>>

\* a Provider that registers its element and its map before it calls the
\* initializer, so that they stay when the initializer throws
Provider_halfBuilt(i, p, d, instanceIdProp, initialState, mergeStrategy) ==
  LET instanceId == IF instanceIdProp = UndefinedId THEN defaultInstanceId
                    ELSE instanceIdProp
      parentContext == useContext(p, d)
      currentStore == constructed + 1
      outcomes == IF ~IsNull(contextRef[i]) THEN {"notCalled"}
                  ELSE IF options.initializer = "mayThrow"
                       THEN {"returns", "throws"}
                  ELSE {"returns"}
  IN /\ \/ /\ ~tree[i].mounted
           /\ i = constructed + 1
           /\ p \in Positions
        \/ /\ tree[i].mounted
           /\ p = tree[i].parent
           /\ d = tree[i].def
     /\ \E initializer \in outcomes :
          /\ IF initializer # "notCalled"
             THEN /\ constructed' = currentStore
                  /\ storeState' = [storeState EXCEPT ![currentStore] =
                       IF initializer = "returns"
                       THEN createdState(initialState, mergeStrategy)
                       ELSE Undefined]
                  /\ contextRef' = [contextRef EXCEPT ![i] =
                       [stores |-> initialStores(parentContext, instanceId,
                                                 currentStore),
                        defaultStore |-> currentStore]]
                  /\ tree' = [tree EXCEPT ![i] =
                       [mounted |-> TRUE, def |-> d, parent |-> p]]
             ELSE UNCHANGED <<constructed, storeState, contextRef, tree>>
          /\ last' = [hook |-> "Provider", at |-> i, def |-> d,
                       instanceId |-> instanceIdProp,
                       initialState |-> initialState,
                       mergeStrategy |-> mergeStrategy,
                       created |-> initializer = "returns",
                       initializer |-> initializer,
                       thrown |-> IF initializer = "throws"
                                  THEN "InitializerError" ELSE "none",
                       writes |-> IF initializer = "returns"
                                  THEN setStateCalls(initialState,
                                                     mergeStrategy)
                                  ELSE <<>>]
     /\ UNCHANGED <<options, defaultStore, mutations>>

\* One evaluation of the Provider element in slot i, rendered under
\* element p for definition d.  The first evaluation of a slot mounts it;
\* a later one finds contextRef.current set and keeps it.  An initializer
\* that throws does so inside createStore(initializer), the first statement
\* of the construction: the render fails, the element is not mounted and
\* contextRef.current is still null.
Provider(i, p, d, instanceIdProp, initialState, mergeStrategy) ==
  LET instanceId == IF instanceIdProp = UndefinedId THEN defaultInstanceId
                    ELSE instanceIdProp
      parentContext == useContext(p, d)
      currentStore == constructed + 1
      \* what createStore(initializer) can do when it is reached
      outcomes == IF ~IsNull(contextRef[i]) THEN {"notCalled"}
                  ELSE IF options.initializer = "mayThrow"
                       THEN {"returns", "throws"}
                  ELSE {"returns"}
  IN /\ \/ /\ ~tree[i].mounted
           /\ i = constructed + 1
           /\ p \in Positions
        \/ /\ tree[i].mounted
           /\ p = tree[i].parent
           /\ d = tree[i].def
     /\ \E initializer \in outcomes :
          /\ IF initializer = "returns"
             THEN /\ constructed' = currentStore
                  /\ storeState' = [storeState EXCEPT
                       ![currentStore] = createdState(initialState, mergeStrategy)]
                  /\ contextRef' = [contextRef EXCEPT ![i] =
                       [stores |-> initialStores(parentContext, instanceId,
                                                 currentStore),
                        defaultStore |-> currentStore]]
                  /\ tree' = [tree EXCEPT ![i] =
                       [mounted |-> TRUE, def |-> d, parent |-> p]]
             ELSE UNCHANGED <<constructed, storeState, contextRef, tree>>
          /\ last' = [hook |-> "Provider", at |-> i, def |-> d,
                       instanceId |-> instanceIdProp,
                       initialState |-> initialState,
                       mergeStrategy |-> mergeStrategy,
                       created |-> initializer = "returns",
                       initializer |-> initializer,
                       thrown |-> IF initializer = "throws"
                                  THEN "InitializerError" ELSE "none",
                       writes |-> IF initializer = "returns"
                                  THEN setStateCalls(initialState,
                                                     mergeStrategy)
                                  ELSE <<>>]
     /\ UNCHANGED <<options, defaultStore, mutations>>

\* React unmounts the element in slot i with everything rendered under it;
\* the refs and stores of the unmounted elements are dropped with them
RECURSIVE IsUnder(_, _)
IsUnder(j, i) ==
  IF j = 0 THEN FALSE
  ELSE IF j = i THEN TRUE
  ELSE IsUnder(tree[j].parent, i)

\* a teardown that also empties the map of the parent boundary
Unmount_clearsParent(i) ==
  /\ tree[i].mounted
  /\ tree' = [j \in Slots |->
       IF tree[j].mounted /\ IsUnder(j, i) THEN NoElement ELSE tree[j]]
  /\ contextRef' = [j \in Slots |->
       IF tree[j].mounted /\ IsUnder(j, i) THEN NullRef
       ELSE IF j = tree[i].parent
            THEN [contextRef[j] EXCEPT !.stores = NullRef.stores]
       ELSE contextRef[j]]
  /\ storeState' = [j \in Slots |->
       IF tree[j].mounted /\ IsUnder(j, i) THEN Undefined ELSE storeState[j]]
  /\ last' = [hook |-> "unmount", at |-> i, parent |-> tree[i].parent]
  /\ UNCHANGED <<options, defaultStore, constructed, mutations>>

Unmount(i) ==
  /\ tree[i].mounted
  /\ tree' = [j \in Slots |->
       IF tree[j].mounted /\ IsUnder(j, i) THEN NoElement ELSE tree[j]]
  /\ contextRef' = [j \in Slots |->
       IF tree[j].mounted /\ IsUnder(j, i) THEN NullRef ELSE contextRef[j]]
  /\ storeState' = [j \in Slots |->
       IF tree[j].mounted /\ IsUnder(j, i) THEN Undefined ELSE storeState[j]]
  /\ last' = [hook |-> "unmount", at |-> i, parent |-> tree[i].parent]
  /\ UNCHANGED <<options, defaultStore, constructed, mutations>>

\* ------------------------------------------------------------ consumers
\* a mutator whose write lands in every live store of the definition
Increment_sharedState(s) ==
  /\ tree[s].mounted
  /\ mutations < MaxMutations
  /\ Get(storeState[s], "increment") = Fn(1)
  /\ Get(storeState[s], "count").t = "number"
  /\ storeState' = [j \in Slots |->
       IF tree[j].mounted /\ tree[j].def = tree[s].def
       THEN setState(storeState[j],
                     Obj([count |-> Num(Get(storeState[s], "count").n + 1)]),
                     "undefined")
       ELSE storeState[j]]
  /\ mutations' = mutations + 1
  /\ last' = [hook |-> "increment", at |-> s]
  /\ UNCHANGED <<options, defaultStore, tree, contextRef, constructed>>

\* a consumer calls the increment mutator of the state it got from store s:
\* set((s) => ({ count: s.count + 1 }))
Increment(s) ==
  /\ tree[s].mounted
  /\ mutations < MaxMutations
  /\ Get(storeState[s], "increment") = Fn(1)
  /\ Get(storeState[s], "count").t = "number"
  /\ storeState' = [storeState EXCEPT ![s] =
       setState(storeState[s],
                Obj([count |-> Num(Get(storeState[s], "count").n + 1)]),
                "undefined")]
  /\ mutations' = mutations + 1
  /\ last' = [hook |-> "increment", at |-> s]
  /\ UNCHANGED <<options, defaultStore, tree, contextRef, constructed>>

\* a component of definition d rendered under element p calls the base hook
CallBaseHook(p, d, selector) ==
  /\ p \in Positions
  /\ last' = [hook |-> "base", at |-> p, def |-> d,
               instanceId |-> UndefinedId, selector |-> selector]
             @@ useContextStore(p, d, selector)
  /\ UNCHANGED <<options, defaultStore, tree, contextRef, storeState,
                 constructed, mutations>>

\* ... or the hook returned by from(instanceId)
CallFromHook(p, d, instanceId, selector) ==
  /\ p \in Positions
  /\ last' = [hook |-> "from", at |-> p, def |-> d,
               instanceId |-> instanceId, selector |-> selector]
             @@ useNamedContextStore(p, d, instanceId, selector)
  /\ UNCHANGED <<options, defaultStore, tree, contextRef, storeState,
                 constructed, mutations>>

\* ... or useProxySelector(fallback)
CallProxySelector(p, d, fallback) ==
  /\ p \in Positions
  /\ last' = [hook |-> "proxy", at |-> p, def |-> d,
               instanceId |-> UndefinedId, selector |-> "none",
               fallback |-> fallback]
             @@ useProxySelector(p, d, fallback)
  /\ UNCHANGED <<options, defaultStore, tree, contextRef, storeState,
                 constructed, mutations>>

\* ---------------------------------------------------- merge helper calls
\* mergeState(oldState, newState) called on its own
CallMergeState(oldState, newState) ==
  /\ last' = [hook |-> "mergeState", oldState |-> oldState,
               newState |-> newState,
               result |-> mergeState(oldState, newState)]
  /\ UNCHANGED <<options, defaultStore, tree, contextRef, storeState,
                 constructed, mutations>>

\* deepMerge(target, source) called on its own
CallDeepMerge(target, source) ==
  /\ last' = [hook |-> "deepMerge", target |-> target, source |-> source,
               result |-> deepMerge(target, source)]
  /\ UNCHANGED <<options, defaultStore, tree, contextRef, storeState,
                 constructed, mutations>>

\* filterStateByLists(state, whitelist, blacklist) called on its own
CallFilterStateByLists(state, whitelist, blacklist) ==
  /\ last' = [hook |-> "filterStateByLists", state |-> state,
               whitelist |-> whitelist, blacklist |-> blacklist,
               result |-> filterStateByLists(state, whitelist, blacklist)]
  /\ UNCHANGED <<options, defaultStore, tree, contextRef, storeState,
                 constructed, mutations>>

\* ------------------------------------------------- persist middleware
\* the options a store passes to persist(): its name, if any, and a storage
NoName == <<>>
PersistNames == {NoName, <<"user-profile">>}
PersistOptions == [name : PersistNames, storage : {"localStorage"}]
\* the name option of create()
ContextName == "ProfileContext"
\* the instanceId props of the persisted Providers
PersistIds == {UndefinedId, "default", "user1", "user2"}

\* persist's transformOptions(options, { instanceId, contextName }); a name
\* `${a}-${b}` is the sequence <<a, b>>
transformOptions(opts, identity) ==
  IF ~TruthyId(identity.instanceId) \/ identity.instanceId = "default"
  THEN [opts EXCEPT !.storage = "null"]
  ELSE IF opts.name # NoName
       THEN [opts EXCEPT !.name = opts.name \o <<identity.instanceId>>]
       ELSE [opts EXCEPT !.name = <<identity.contextName,
                                     identity.instanceId>>]

\* the api object of the store that a Provider with the given instanceId
\* prop creates with createStore(initializer), as the middleware reads it:
\* createStore builds { setState, getState, getInitialState, subscribe }
\* and the Provider adds nothing, so both reads give undefined
storeApi(instanceIdProp) ==
  [_contextInstanceId |-> UndefinedId, _contextName |-> UndefinedId]

\* contextAwareMiddleware(set, get, api) of adaptMiddleware: the options it
\* hands to zustand's persist
contextAwareMiddleware(opts, api) ==
  transformOptions(opts, [instanceId |-> api._contextInstanceId,
                          contextName |-> api._contextName])

\* a Provider with the given instanceId prop constructs the store of an
\* initializer wrapped as persist(initializer, opts)
CallPersist(opts, instanceIdProp) ==
  /\ last' = [hook |-> "persist", options |-> opts,
               instanceId |-> instanceIdProp,
               result |-> contextAwareMiddleware(opts,
                                                 storeApi(instanceIdProp))]
  /\ UNCHANGED <<options, defaultStore, tree, contextRef, storeState,
                 constructed, mutations>>

\* ------------------------------------------------------------ behaviours
StrictOptions == {"omitted", "undefined", "true", "false"}
DefaultStateOptions == {Undefined, ConfiguredDefaultState}
OnErrorOptions == {"none", "returns", "throws"}

\* the program after create(initializer, opts) for each definition
Created(opts) ==
  /\ options = opts
  /\ defaultStore = [d \in Defs |-> createDefaultStore(opts)]
  /\ tree = [i \in Slots |-> NoElement]
  /\ contextRef = [i \in Slots |-> NullRef]
  /\ storeState = [i \in Slots |-> Undefined]
  /\ constructed = 0
  /\ mutations = 0
  /\ last = NoCall

\* Spec: the registry.  Providers of one definition with every instanceId,
\* nested and side by side; consumers anywhere that select the count, from
\* the nearest store or from the store of an id.
Init ==
  \E opts \in [strict : {"true", "false"},
               defaultState : {ConfiguredDefaultState},
               onError : {"none"},
               defaultInstanceId : {UndefinedId},
               initializer : {"returns"},
               mergeOptions : {NoMergeOptions}] : Created(opts)

Next ==
  \/ \E i \in Slots, p \in {0} \cup Slots, id \in IdArgs :
       Provider(i, p, 1, id, Undefined, "undefined")
  \/ \E i \in Slots : Unmount(i)
  \/ \E s \in Slots : Increment(s)
  \/ \E p \in {0} \cup Slots : CallBaseHook(p, 1, "count")
  \/ \E p \in {0} \cup Slots, id \in InstanceIds :
       CallFromHook(p, 1, id, "count")

Spec == Init /\ [][Next]_vars

\* SpecPolicy: the strict/fallback policy.  Every combination of the
\* strict, defaultState and onError options; Providers of both definitions
\* under the default instanceId, consumers of the first definition that
\* take the whole state.
InitPolicy ==
  \E opts \in [strict : StrictOptions,
               defaultState : DefaultStateOptions,
               onError : OnErrorOptions,
               defaultInstanceId : {UndefinedId},
               initializer : {"returns"},
               mergeOptions : {NoMergeOptions}] : Created(opts)

NextPolicy ==
  \/ \E i \in Slots, p \in {0} \cup Slots, d \in Defs :
       Provider(i, p, d, UndefinedId, Undefined, "undefined")
  \/ \E i \in Slots : Unmount(i)
  \/ \E s \in Slots : Increment(s)
  \/ \E p \in {0} \cup Slots : CallBaseHook(p, 1, "none")
  \/ \E p \in {0} \cup Slots : CallFromHook(p, 1, "a", "none")

SpecPolicy == InitPolicy /\ [][NextPolicy]_vars

\* SpecAccess: the accessors.  Every combination of the strict,
\* defaultState and onError options; Providers of both definitions under
\* the default instanceId; consumers that call the base hook and the hook of
\* from(id) with and without a selector, and useProxySelector with a
\* fallback of their own.
FallbackState == Obj([count |-> Num(7)])

NextAccess ==
  \/ \E i \in Slots, p \in {0} \cup Slots, d \in Defs :
       Provider(i, p, d, UndefinedId, Undefined, "undefined")
  \/ \E i \in Slots : Unmount(i)
  \/ \E p \in {0} \cup Slots, sel \in Selectors : CallBaseHook(p, 1, sel)
  \/ \E p \in {0} \cup Slots, sel \in Selectors :
       CallFromHook(p, 1, "a", sel)
  \/ \E p \in {0} \cup Slots : CallProxySelector(p, 1, FallbackState)

SpecAccess == InitPolicy /\ [][NextAccess]_vars

\* SpecThrow: an initializer that can throw.  Providers of one definition
\* with and without an instanceId and an initialState, nested and side by
\* side, whose construction fails or succeeds; consumers that mutate and
\* consumers that look a store up by an id.
InitThrow ==
  \E opts \in [strict : {"true"},
               defaultState : {Undefined},
               onError : {"none"},
               defaultInstanceId : {UndefinedId},
               initializer : {"mayThrow"},
               mergeOptions : {NoMergeOptions}] : Created(opts)

NextThrow ==
  \/ \E i \in Slots, p \in {0} \cup Slots, id \in {UndefinedId, "a"},
        initialState \in {Undefined, PartialState} :
       Provider(i, p, 1, id, initialState, "undefined")
  \/ \E i \in Slots : Unmount(i)
  \/ \E s \in Slots : Increment(s)
  \/ \E p \in {0} \cup Slots : CallFromHook(p, 1, "a", "count")

SpecThrow == InitThrow /\ [][NextThrow]_vars

\* SpecMerge: the initial state of a store.  create() without mergeOptions
\* and with a whitelist, with or without a blacklist and shallow: false;
\* Providers of one definition under the default instanceId, nested and
\* side by side, mounted with every initialState and mergeStrategy and
\* re-evaluated with other props; consumers that mutate and consumers
\* that look a store up by an id.
ShallowOptions == {"undefined", "false"}
WhitelistOptions == {List({"count", "user"})}
BlacklistOptions == {NoList, List({"user"})}

\* mergeOptions left out, or given with each combination of its fields
MergeOptions ==
  {NoMergeOptions} \cup
  [given : {TRUE}, shallow : ShallowOptions, whitelist : WhitelistOptions,
   blacklist : BlacklistOptions, customMerge : {"none"}]

InitMerge ==
  \E opts \in [strict : {"true"},
               defaultState : {Undefined},
               onError : {"none"},
               defaultInstanceId : {UndefinedId},
               initializer : {"returns"},
               mergeOptions : MergeOptions] : Created(opts)

NextMerge ==
  \/ \E i \in Slots, p \in {0} \cup Slots, initialState \in InitialStates,
        mergeStrategy \in MergeStrategies :
       /\ ~tree[i].mounted
       /\ Provider(i, p, 1, UndefinedId, initialState, mergeStrategy)
  \/ \E i \in Slots :
       /\ tree[i].mounted
       /\ Provider(i, tree[i].parent, 1, "a", PartialState, "replace")
  \/ \E i \in Slots : Unmount(i)
  \/ \E s \in Slots : Increment(s)
  \/ \E p \in {0} \cup Slots : CallFromHook(p, 1, "a", "none")

SpecMerge == InitMerge /\ [][NextMerge]_vars

\* SpecInitial: the initial state under every merge configuration.  Every
\* combination of shallow, a whitelist, a blacklist and customMerge; root
\* Providers constructed with every mergeStrategy and with an initialState
\* that is left out, null, a number, an empty or a nested object.
AllMergeOptions ==
  {NoMergeOptions} \cup
  [given : {TRUE}, shallow : ShallowOptions,
   whitelist : {NoList, List({"count"})}, blacklist : BlacklistOptions,
   customMerge : {"none", "configured"}]

InitialPartials == InitialStates \cup {Null, Num(5)}

InitInitial ==
  \E opts \in [strict : {"true"},
               defaultState : {Undefined},
               onError : {"none"},
               defaultInstanceId : {UndefinedId},
               initializer : {"returns"},
               mergeOptions : AllMergeOptions] : Created(opts)

NextInitial ==
  \E i \in Slots, initialState \in InitialPartials,
     mergeStrategy \in MergeStrategies :
    /\ ~tree[i].mounted
    /\ Provider(i, 0, 1, UndefinedId, initialState, mergeStrategy)

SpecInitial == InitInitial /\ [][NextInitial]_vars

\* SpecUtils: the merge helpers as functions, under the same mergeOptions;
\* mergeState, deepMerge and filterStateByLists
\* applied to states and partials with the keys count and user, whose
\* values are numbers, null, functions and objects nested two levels deep,
\* and to every whitelist and blacklist over these keys.
FieldValues ==
  {Num(1), Null, Fn(1), EmptyObject,
   Obj([name |-> Num(1)]),
   Obj([name |-> Num(2), age |-> Num(1)]),
   Obj([name |-> Obj([first |-> Num(2)])])}

SampleObjects ==
  {Obj(f) : f \in UNION {[K -> FieldValues] : K \in SUBSET {"count", "user"}}}

ListOptions == {NoList} \cup {List(K) : K \in SUBSET {"count", "user"}}

\* the helpers keep no state between calls: a behaviour applies one helper
\* to one choice of arguments
NextUtils ==
  \/ /\ last = NoCall
     /\ \E oldState \in SampleObjects, newState \in SampleObjects :
          CallMergeState(oldState, newState)
  \/ /\ last = NoCall
     /\ \E target \in SampleObjects, source \in SampleObjects :
          CallDeepMerge(target, source)
  \/ /\ last = NoCall
     /\ \E state \in SampleObjects, whitelist \in ListOptions,
           blacklist \in ListOptions :
          CallFilterStateByLists(state, whitelist, blacklist)
  \/ /\ last = NoCall
     /\ \E opts \in PersistOptions, instanceIdProp \in PersistIds :
          CallPersist(opts, instanceIdProp)

SpecUtils == InitMerge /\ [][NextUtils]_vars

\* ------------------------------------------------------------ properties
\* the nearest boundary of definition d that encloses position p, found by
\* walking the element tree upwards (0: none)
RECURSIVE Enclosing(_, _)
Enclosing(p, d) ==
  IF p = 0 THEN 0
  ELSE IF tree[p].mounted /\ tree[p].def = d THEN p
  ELSE Enclosing(tree[p].parent, d)

HasScope(p, d) == Enclosing(p, d) # 0

\* the key under which the Provider in slot n registered its own store
LocalKey(n) == CHOOSE k \in MapKeys : contextRef[n].stores[k] = n

\* the deepest boundary of definition d, from n up to the root, whose own
\* key is k (0: none)
RECURSIVE DeepestWithKey(_, _, _)
DeepestWithKey(n, d, k) ==
  IF n = 0 THEN 0
  ELSE IF LocalKey(n) = k THEN n
  ELSE DeepestWithKey(Enclosing(tree[n].parent, d), d, k)

\* the recorded call is the call that the current tree would answer so
CallOf(r) ==
  /\ r.hook \in {"base", "from"}
  /\ r.at \in Positions
  /\ r = [hook |-> r.hook, at |-> r.at, def |-> r.def,
          instanceId |-> r.instanceId, selector |-> r.selector]
         @@ (IF r.hook = "base"
             THEN useContextStore(r.at, r.def, r.selector)
             ELSE useNamedContextStore(r.at, r.def, r.instanceId, r.selector))

\* the calls a consumer can make: the base hook, or the hook of from(id)
Calls == {<<"base", UndefinedId>>} \cup {<<"from", id>> : id \in IdArgs}

\* what the call c yields at position p for definition d
Resolve(c, p, d, sel) ==
  IF c[1] = "base" THEN useContextStore(p, d, sel)
  ELSE useNamedContextStore(p, d, c[2], sel)

\* the value of a state under a selector
Selected(state, sel) == IF sel = "none" THEN state ELSE Get(state, sel)

\* the explicit key k is absent from the map of the boundary enclosing p
KeyMissing(p, d, k) ==
  HasScope(p, d) /\ contextRef[Enclosing(p, d)].stores[k] = 0

CountOf(e, events) == Cardinality({i \in DOMAIN events : events[i] = e})

\* C1: under at least one boundary, the base hook and from() without an id
\* return the store of the nearest enclosing boundary, and its state,
\* whatever keys the boundaries on the path use.
C1_NearestByDefault ==
  \A p \in Positions, d \in Defs, sel \in Selectors :
    HasScope(p, d) =>
      LET n == Enclosing(p, d)
          b == useContextStore(p, d, sel)
          f == useNamedContextStore(p, d, UndefinedId, sel)
      IN /\ b.outcome = "returned" /\ b.store = n
         /\ b.value = useStore(n, d, sel)
         /\ f.outcome = "returned" /\ f.store = n
         /\ f.value = useStore(n, d, sel)

\* a consumer under a boundary nested in a boundary with another key got
\* the inner boundary's store
C1_Witness ==
  /\ CallOf(last)
  /\ last.at # 0 /\ tree[last.at].parent # 0
  /\ LocalKey(last.at) # LocalKey(tree[last.at].parent)
  /\ LocalKey(tree[last.at].parent) = "Symbol(default)"
  /\ last.hook = "base"
  /\ last.store = last.at

\* C2 (as claimed): an explicit key that is the own key of a boundary on the
\* path resolves to the deepest such boundary's store.
C2_ExplicitKeyDeepest ==
  \A p \in Positions, d \in Defs, k \in InstanceIds, sel \in Selectors :
    (HasScope(p, d) /\ DeepestWithKey(Enclosing(p, d), d, k) # 0) =>
      LET r == useNamedContextStore(p, d, k, sel)
      IN /\ r.outcome = "returned"
         /\ r.store = DeepestWithKey(Enclosing(p, d), d, k)

\* C3: in non-strict mode an explicit key absent from the nearest
\* boundary's map resolves to that boundary's own live store: the call
\* returns what the base hook returns there, never the defaultState store.
C3_MissingKeyYieldsNearest ==
  \A p \in Positions, d \in Defs, k \in InstanceIds, sel \in Selectors :
    (mergedStrict(options) = "false" /\ KeyMissing(p, d, k)) =>
      LET n == Enclosing(p, d)
          r == useNamedContextStore(p, d, k, sel)
      IN /\ r.outcome = "returned"
         /\ r.store = n
         /\ r.value = Selected(storeState[n], sel)
         /\ r.value = useContextStore(p, d, sel).value

\* a missing key asked for under a nested boundary after a mutation of
\* that boundary's store: the mutated count is what the call returned
C3_Witness ==
  /\ CallOf(last)
  /\ mergedStrict(options) = "false" /\ defaultStore[last.def].exists
  /\ last.hook = "from" /\ last.instanceId = "a"
  /\ KeyMissing(last.at, last.def, "a")
  /\ last.at # 0 /\ tree[last.at].parent # 0
  /\ last.selector = "count" /\ last.value = Num(1)
  /\ last.store = last.at

\* C4 (as claimed): in strict mode an explicit key absent from the nearest
\* boundary's map makes the call throw a key-not-found error.
C4_StrictMissingKeyThrows ==
  \A p \in Positions, d \in Defs, k \in InstanceIds, sel \in Selectors :
    (strict /\ KeyMissing(p, d, k)) =>
      LET r == useNamedContextStore(p, d, k, sel)
      IN r.outcome = "threw" /\ r.error = "KeyNotFound"

C6_FallbackStateReadOnly ==
  (mergedStrict(options) = "false" /\ Truthy(options.defaultState)) =>
  \A c \in Calls, p \in Positions, d \in Defs, sel \in Selectors :
    ~HasScope(p, d) =>
      LET r == Resolve(c, p, d, sel)
      IN /\ r.outcome = "returned"
         /\ r.value = Selected(options.defaultState, sel)

\* a no-scope call made after a boundary was built and its store mutated
C6_Witness ==
  /\ CallOf(last)
  /\ mergedStrict(options) = "false"
  /\ constructed > 0 /\ mutations > 0
  /\ ~HasScope(last.at, last.def)
  /\ last.selector = "none" /\ last.value = ConfiguredDefaultState

\* C7: with strict false and no defaultState, a call with no enclosing
\* boundary returns an empty object, unless the onError hook throws.
C7_NoFallbackYieldsEmpty ==
  (mergedStrict(options) = "false" /\ ~Truthy(options.defaultState)
     /\ options.onError # "throws") =>
  \A c \in Calls, p \in Positions, d \in Defs, sel \in Selectors :
    ~HasScope(p, d) =>
      LET r == Resolve(c, p, d, sel)
      IN /\ r.outcome = "returned"
         /\ r.error = "none"
         /\ r.value = EmptyObject

C7_Witness ==
  /\ CallOf(last)
  /\ mergedStrict(options) = "false" /\ ~Truthy(options.defaultState)
  /\ options.onError = "returns"
  /\ ~HasScope(last.at, last.def)
  /\ last.outcome = "returned" /\ last.value = EmptyObject
  /\ last.events = <<"onError", "return">>

\* C8 (as claimed): for every failed resolution, no-scope or key-not-found,
\* a configured onError hook is called exactly once, before anything is
\* thrown or returned.
C8_OnErrorOnceOnEveryFailure ==
  \A c \in Calls, p \in Positions, d \in Defs, sel \in Selectors :
    (options.onError # "none"
       /\ (~HasScope(p, d) \/ (c[1] = "from" /\ c[2] \in InstanceIds
                               /\ KeyMissing(p, d, c[2])))) =>
      LET r == Resolve(c, p, d, sel)
      IN /\ CountOf("onError", r.events) = 1
         /\ r.events[1] = "onError"

\* C9 (as claimed): when strict is omitted or given as undefined the store
\* is strict: a no-scope call throws and no defaultState store is used.
C9_StrictDefaultsToTrue ==
  \A c \in Calls, p \in Positions, d \in Defs, sel \in Selectors :
    (options.strict \in {"omitted", "undefined"} /\ ~HasScope(p, d)) =>
      LET r == Resolve(c, p, d, sel)
      IN r.outcome = "threw" /\ ~defaultStore[d].exists

\* C10: with strict true, a configured defaultState is not used: a no-scope
\* call throws and returns nothing, and no defaultState store exists.
C10_FallbackOnlyWhenNonStrict ==
  (options.strict = "true" /\ Truthy(options.defaultState)) =>
  \A c \in Calls, p \in Positions, d \in Defs, sel \in Selectors :
    ~HasScope(p, d) =>
      LET r == Resolve(c, p, d, sel)
      IN /\ r.outcome = "threw"
         /\ r.store = 0 /\ r.value = Undefined
         /\ ~defaultStore[d].exists

C10_Witness ==
  /\ CallOf(last)
  /\ options.strict = "true" /\ options.defaultState = ConfiguredDefaultState
  /\ ~HasScope(last.at, last.def)
  /\ last.outcome = "threw" /\ last.store = 0

\* ------------------------------------------------- registry properties
\* the map key that an instanceId prop stands for
KeyOfProp(id) == IF id = UndefinedId THEN defaultInstanceId ELSE id

\* the keys present in the stores map of the boundary in slot n
KeysOf(n) == {k \in MapKeys : contextRef[n].stores[k] # 0}

\* the boundary of the same definition that encloses the one in slot n
ParentOf(n) == Enclosing(tree[n].parent, tree[n].def)

\* C11: every boundary's map has exactly one key for its own store, the key
\* it was constructed with; a root's map has that entry only; a child's map
\* has every key of its parent's map with the parent's store, except its
\* own key, which maps to its own store.
C11_InheritedMapShadows ==
  /\ \A n \in Slots : tree[n].mounted =>
        /\ Cardinality({k \in MapKeys : contextRef[n].stores[k] = n}) = 1
        /\ contextRef[n].defaultStore = n
        /\ ParentOf(n) = 0 => KeysOf(n) = {LocalKey(n)}
        /\ ParentOf(n) # 0 =>
             \A k \in MapKeys :
               contextRef[n].stores[k] =
                 IF k = LocalKey(n) THEN n
                 ELSE contextRef[ParentOf(n)].stores[k]
  /\ (last.hook = "Provider" /\ last.created /\ tree[last.at].mounted) =>
       LocalKey(last.at) = KeyOfProp(last.instanceId)

\* a child constructed with the key of its parent: the key maps to the
\* child's store in the child's map and to the parent's in the parent's
C11_Witness ==
  \E n \in Slots :
    /\ tree[n].mounted /\ ParentOf(n) # 0
    /\ LocalKey(n) = "a" /\ LocalKey(ParentOf(n)) = "a"
    /\ contextRef[n].stores["a"] = n
    /\ contextRef[ParentOf(n)].stores["a"] = ParentOf(n)

\* C12: the stores of two distinct boundaries are distinct stores, in every
\* state, and a mutator call changes the state of exactly one store: the
\* state of every other boundary's store, and of the defaultState store,
\* is what it was.
C12_InstanceIsolation ==
  [][/\ \A i, j \in Slots :
          (i # j /\ tree'[i].mounted /\ tree'[j].mounted) =>
            contextRef'[i].defaultStore # contextRef'[j].defaultStore
     /\ mutations' # mutations =>
          /\ \A n \in Slots :
               storeState'[n] # storeState[n] <=> n = last'.at
          /\ defaultStore' = defaultStore]_vars

\* two boundaries, side by side or nested, one store mutated and the other
\* still in the initializer's state
C12_Witness ==
  \E i, j \in Slots :
    /\ i # j /\ tree[i].mounted /\ tree[j].mounted
    /\ mutations > 0
    /\ Get(storeState[i], "count") = Num(1)
    /\ storeState[j] = InitializerState

C14_ChildStartsFromParentState ==
  [][\A n \in Slots :
       (~tree[n].mounted /\ tree'[n].mounted
          /\ Enclosing(tree'[n].parent, tree'[n].def) # 0) =>
         LET parentState ==
               storeState[Enclosing(tree'[n].parent, tree'[n].def)]
         IN IF ~Truthy(last'.initialState)
            THEN storeState'[n] = parentState
            ELSE last'.mergeStrategy # "replace" =>
                   \A k \in ObjectKeys(parentState)
                            \ ObjectKeys(last'.initialState) :
                     Get(storeState'[n], k) = Get(parentState, k)]_vars

\* C15: while a boundary stays mounted its map and its store handle never
\* change and its store's state changes only by a mutator call on that
\* store; a re-evaluation of a mounted boundary, whatever instanceId,
\* initialState and mergeStrategy it passes, creates no store and changes
\* no map and no state.
C15_ConstructionMemoized ==
  [][/\ \A i \in Slots :
          (tree[i].mounted /\ tree'[i].mounted) =>
            /\ contextRef'[i] = contextRef[i]
            /\ tree'[i] = tree[i]
            /\ storeState'[i] # storeState[i] =>
                 (last'.hook = "increment" /\ last'.at = i)
     /\ (last' # last /\ last'.hook = "Provider" /\ ~last'.created) =>
          /\ constructed' = constructed
          /\ storeState' = storeState
          /\ contextRef' = contextRef
          /\ tree' = tree]_vars

\* a boundary constructed under the default key with no initialState, then
\* re-evaluated with instanceId 'a' and an initialState under 'replace'
C15_Witness ==
  /\ last.hook = "Provider" /\ ~last.created
  /\ last.instanceId = "a" /\ last.initialState = PartialState
  /\ last.mergeStrategy = "replace"
  /\ tree[last.at].mounted
  /\ storeState[last.at] = InitializerState
  /\ LocalKey(last.at) = "Symbol(default)"
  /\ contextRef[last.at].stores["a"] = 0
  /\ constructed = Cardinality({i \in Slots : tree[i].mounted})

\* ---------------------------------------------------- merge properties
\* C16: under merge options that select the shallow merge and filter
\* nothing, mergeState of a base and a plain-object partial has the keys of
\* both, partial's value at every key of partial (a nested object of
\* partial as it is, not merged with the base's) and base's value at every
\* other key; with an empty partial it is the base.
C16_ShallowMerge ==
  (/\ last.hook = "mergeState"
   /\ options.mergeOptions.shallow # "false"
   /\ options.mergeOptions.customMerge = "none"
   /\ ~options.mergeOptions.whitelist.given
   /\ ~options.mergeOptions.blacklist.given) =>
    LET base == last.oldState
        partial == last.newState
        result == last.result
    IN /\ ObjectKeys(result) = ObjectKeys(base) \cup ObjectKeys(partial)
       /\ \A k \in ObjectKeys(partial) : result.o[k] = partial.o[k]
       /\ \A k \in ObjectKeys(base) \ ObjectKeys(partial) :
            result.o[k] = base.o[k]
       /\ partial = EmptyObject => result = base

\* a nested object of the partial that replaced a larger one of the base
C16_Witness ==
  /\ last.hook = "mergeState"
  /\ options.mergeOptions.shallow # "false"
  /\ ~options.mergeOptions.whitelist.given
  /\ ~options.mergeOptions.blacklist.given
  /\ Get(last.oldState, "user") = Obj([name |-> Num(2), age |-> Num(1)])
  /\ Get(last.oldState, "count") = Num(1)
  /\ last.newState = Obj([user |-> Obj([name |-> Num(1)])])
  /\ last.result = Obj([count |-> Num(1), user |-> Obj([name |-> Num(1)])])

\* the deep merge as the claim describes it
RECURSIVE mergeDeepAsClaimed(_, _)
mergeDeepAsClaimed(base, partial) ==
  Obj([k \in ObjectKeys(base) \cup ObjectKeys(partial) |->
         IF k \notin ObjectKeys(partial) THEN base.o[k]
         ELSE IF k \in ObjectKeys(base) /\ isObject(base.o[k])
                 /\ isObject(partial.o[k])
              THEN mergeDeepAsClaimed(base.o[k], partial.o[k])
              ELSE partial.o[k]])

\* C17 (as claimed): deepMerge of a base and a plain-object partial
\* recurses where both hold a plain object, holds partial's value as it is
\* at every other key of partial (also where the base holds a number, null
\* or a function and partial an object), and base's value elsewhere.
C17_DeepMergeAsClaimed ==
  last.hook = "deepMerge" =>
    last.result = mergeDeepAsClaimed(last.target, last.source)

\* C18 (as claimed): merging the same partial into the result of deepMerge
\* once more gives that result again.
C18_DeepMergeIdempotent ==
  last.hook = "deepMerge" =>
    deepMerge(last.result, last.source) = last.result

\* C19: a store constructed with mergeStrategy 'replace' and a plain-object
\* initialState has exactly that object as its state, with none of the
\* initializer's other keys, and replacing any other base by it gives the
\* same state.
C19_ReplaceDiscardsBase ==
  [][\A n \in Slots :
       (~tree[n].mounted /\ tree'[n].mounted
          /\ last'.mergeStrategy = "replace"
          /\ isObject(last'.initialState)) =>
         /\ storeState'[n] = last'.initialState
         /\ \A base \in SampleObjects :
              setState(base, last'.initialState, "true") = last'.initialState]_vars

\* a store whose state is the partial alone: the initializer's mutator and
\* the rest of its user object are gone
C19_Witness ==
  /\ last.hook = "Provider" /\ last.created
  /\ last.mergeStrategy = "replace" /\ last.initialState = PartialState
  /\ tree[last.at].mounted
  /\ storeState[last.at] = PartialState
  /\ "increment" \notin ObjectKeys(storeState[last.at])
  /\ "increment" \in ObjectKeys(InitializerState)

Constructs(n) == ~tree[n].mounted /\ tree'[n].mounted

\* key k of a partial is excluded by the configured lists
Excluded(k) ==
  LET wl == options.mergeOptions.whitelist
      bl == options.mergeOptions.blacklist
  IN \/ wl.given /\ wl.items # {} /\ k \notin wl.items
     \/ bl.given /\ k \in bl.items

\* C21 (as claimed): with customMerge configured, a store constructed with
\* a plain-object initialState, empty or not, under any mergeStrategy, has
\* the state customMerge(initializer state, initialState).
C21_CustomMergePrecedence ==
  [][\A n \in Slots :
       (Constructs(n) /\ options.mergeOptions.customMerge # "none"
          /\ isObject(last'.initialState)) =>
         storeState'[n] = customMerge(InitializerState, last'.initialState)]_vars

\* C22 (as claimed): with no customMerge, in a store constructed with a
\* plain-object initialState under any mergeStrategy, a key that the
\* configured lists exclude does not hold anything taken from initialState:
\* it holds the initializer's value or is absent.
C22_ListsBeforeEveryStrategy ==
  [][\A n \in Slots :
       (Constructs(n) /\ options.mergeOptions.customMerge = "none"
          /\ isObject(last'.initialState)) =>
         \A k \in ObjectKeys(last'.initialState) :
           Excluded(k) =>
             Get(storeState'[n], k) \in {Get(InitializerState, k), Undefined}]_vars

\* C23 (as claimed): with no customMerge and no lists, the merge applied to
\* a non-empty initialState is the one the Provider names, and with none
\* named it is deep when mergeOptions.shallow is false and shallow
\* otherwise.
C23_StrategySelection ==
  [][\A n \in Slots :
       (Constructs(n) /\ options.mergeOptions.customMerge = "none"
          /\ ~options.mergeOptions.whitelist.given
          /\ ~options.mergeOptions.blacklist.given
          /\ isObject(last'.initialState)
          /\ last'.initialState # EmptyObject) =>
         LET partial == last'.initialState
             named == last'.mergeStrategy
             applied ==
               IF named # "undefined" THEN named
               ELSE IF options.mergeOptions.shallow = "false" THEN "deep"
               ELSE "shallow"
         IN storeState'[n] =
              CASE applied = "replace" -> partial
                [] applied = "deep" ->
                     mergeDeepAsClaimed(InitializerState, partial)
                [] OTHER -> Spread2(InitializerState, partial)]_vars

\* C24 (as claimed): a store constructed with an initialState that is not a
\* plain object (null, a number), under any mergeStrategy and any merge
\* configuration, has the initializer's state.
C24_NonContainerPartialIgnored ==
  [][\A n \in Slots :
       (Constructs(n) /\ last'.initialState # Undefined
          /\ ~isObject(last'.initialState)) =>
         storeState'[n] = InitializerState]_vars

\* ------------------------------------------------- accessor properties
\* C25 (as claimed): useProxySelector(fallback) never throws; called with
\* no enclosing boundary it returns the caller's fallback, whatever the
\* strict, defaultState and onError options are, and called under a
\* boundary it returns the state of the nearest boundary's store.
C25_ProxySelectorFallback ==
  (last.hook = "proxy" /\ last.at \in Positions) =>
    /\ last.outcome = "returned"
    /\ last.value = IF HasScope(last.at, last.def)
                    THEN storeState[Enclosing(last.at, last.def)]
                    ELSE last.fallback

\* C30: with strict false and no defaultState, a call of the base hook or
\* of the hook of from(id) with no enclosing boundary that returns, returns
\* the empty object for every selector: the same value with a selector as
\* without one, and not the selector's value of the empty object.
C30_EmptyObjectNotSelected ==
  (mergedStrict(options) = "false" /\ ~Truthy(options.defaultState)) =>
  \A c \in Calls, p \in Positions, d \in Defs :
    (~HasScope(p, d) /\ Resolve(c, p, d, "count").outcome = "returned") =>
      /\ Resolve(c, p, d, "count").value = Resolve(c, p, d, "none").value
      /\ Resolve(c, p, d, "count").value # Selected(EmptyObject, "count")
      /\ ObjectKeys(Resolve(c, p, d, "count").value) = {}
      /\ isObject(Resolve(c, p, d, "count").value)

C30_Witness ==
  /\ CallOf(last)
  /\ last.hook = "from" /\ last.selector = "count"
  /\ mergedStrict(options) = "false" /\ ~Truthy(options.defaultState)
  /\ ~HasScope(last.at, last.def)
  /\ last.outcome = "returned" /\ last.value = EmptyObject
  /\ \E n \in Slots : tree[n].mounted /\ tree[n].def # last.def

\* ---------------------------------------------- persistence properties
\* C26 (as claimed): the store of a Provider with instanceId X, given and
\* not 'default', persists under the key N-X, or contextName-X when persist
\* was given no name, with its storage kept; the store of a Provider with
\* no instanceId or with 'default' has its storage set to null.
C26_InstanceAwarePersistence ==
  last.hook = "persist" =>
    IF last.instanceId \in {UndefinedId, "default"}
    THEN last.result.storage = "null"
    ELSE /\ last.result.storage = last.options.storage
         /\ last.result.name =
              IF last.options.name # NoName
              THEN last.options.name \o <<last.instanceId>>
              ELSE <<ContextName, last.instanceId>>

\* ------------------------------------------------------ frame properties
\* C27: in every step (a construction, a re-evaluation, a teardown, a
\* mutation, a hook call) each boundary that exists before and after the
\* step keeps every key of its map with the same store; the parent of a
\* torn-down boundary stays mounted with its map as it was.
C27_MapsNeverChange ==
  [][/\ \A n \in Slots :
          (tree[n].mounted /\ tree'[n].mounted) =>
            \A k \in MapKeys :
              contextRef'[n].stores[k] = contextRef[n].stores[k]
     /\ \A i \in Slots :
          (tree[i].mounted /\ ~tree'[i].mounted /\ last'.hook = "unmount"
             /\ last'.at = i /\ tree[i].parent # 0) =>
            /\ tree'[tree[i].parent].mounted
            /\ contextRef'[tree[i].parent] = contextRef[tree[i].parent]]_vars

\* a child was torn down; its parent, constructed under 'a', still has the
\* one key 'a' with its own store
C27_Witness ==
  /\ last.hook = "unmount" /\ last.parent # 0
  /\ ~tree[last.at].mounted
  /\ tree[last.parent].mounted
  /\ KeysOf(last.parent) = {"a"}
  /\ contextRef[last.parent].stores["a"] = last.parent

\* C28: a Provider that constructs a store calls setState on it at most
\* once, only when it is given an initialState, with replace = true, and the
\* store then holds exactly the state that was passed; with no call the store
\* holds the initializer's state.  A re-evaluation makes no call, and the
\* state of a store that stays mounted changes in no step but a mutator
\* call on that store: not in a construction, a re-evaluation, a teardown
\* or a lookup.
C28_RegistryWritesOnce ==
  [][/\ \A n \in Slots :
          Constructs(n) =>
            /\ Len(last'.writes) <= 1
            /\ last'.writes # <<>> => last'.initialState # Undefined
            /\ \A k \in DOMAIN last'.writes :
                 /\ last'.writes[k].replace = "true"
                 /\ storeState'[n] = last'.writes[k].partial
            /\ last'.writes = <<>> => storeState'[n] = InitializerState
     /\ (last'.hook = "Provider" /\ ~last'.created) => last'.writes = <<>>
     /\ \A n \in Slots :
          (tree[n].mounted /\ tree'[n].mounted
             /\ last'.hook \in {"Provider", "unmount", "from", "base"}) =>
            storeState'[n] = storeState[n]]_vars

\* a child constructed with a nested initialState under the default
\* strategy while its parent's store had been mutated: one replacing write
\* of the merged state, and the parent's state untouched
C28_Witness ==
  /\ last.hook = "Provider" /\ last.created
  /\ last.initialState = PartialState /\ last.mergeStrategy = "undefined"
  /\ Len(last.writes) = 1 /\ last.writes[1].replace = "true"
  /\ storeState[last.at] = last.writes[1].partial
  /\ Get(storeState[last.at], "increment") = Fn(1)
  /\ ParentOf(last.at) # 0
  /\ Get(storeState[ParentOf(last.at)], "count").n
       = Get(InitializerState, "count").n + 1

\* C29: when the initializer throws during a Provider's construction the
\* evaluation throws the initializer's error and creates nothing: the
\* element is not mounted, its contextRef is still null, no store is
\* counted, no map and no state of any boundary changes, every lookup
\* answers as before, and the slot is the one the next construction uses.
C29_ConstructionAllOrNothing ==
  [][(last'.hook = "Provider" /\ last'.initializer = "throws") =>
       /\ last'.thrown = "InitializerError"
       /\ ~last'.created /\ last'.writes = <<>>
       /\ ~tree'[last'.at].mounted
       /\ IsNull(contextRef'[last'.at])
       /\ storeState'[last'.at] = Undefined
       /\ last'.at = constructed' + 1
       /\ constructed' = constructed
       /\ tree' = tree
       /\ contextRef' = contextRef
       /\ storeState' = storeState]_vars

\* the construction of a second boundary failed while the first one, whose
\* store had been mutated, stays as it was
C29_Witness ==
  /\ last.hook = "Provider" /\ last.thrown = "InitializerError"
  /\ last.at = 2 /\ ~tree[2].mounted /\ IsNull(contextRef[2])
  /\ tree[1].mounted /\ KeysOf(1) = {"a"}
  /\ Get(storeState[1], "count") = Num(1)
  /\ constructed = 1

====
